---- MODULE Spec2Model ----
(***************************************************************************)
(* Model of the GitHub language-analysis collector:                        *)
(*   GitHubClient           (src/src/mlProject/entity/GitHubClient.py)     *)
(*   RepositoriesAnalytics  (src/src/mlProject/entity/RepositoriesAnalytics.py) *)
(*   the collection driver  (src/scripts/glaDataCollection.py)             *)
(*                                                                         *)
(* Seven specifications share the variables below; each one drives one part *)
(* of the program and leaves the variables of the other parts unchanged:   *)
(*   SpecRow      the per-release row of _add_language_matrix              *)
(*   SpecSampler  GitHubClient.get_releases (filter, sort, time spacing)   *)
(*                and the dates of the rows built from its result          *)
(*   SpecClient   GitHubClient._get and its rate limit                     *)
(*   Spec         the store: collect, delete, from_csv                     *)
(*   SpecFolder   the folder: to_csv step by step, from_csv, delete        *)
(*   SpecMatrix   _add_language_matrix on a filled instance                *)
(*   SpecPager    the paged calls: get_repositories, the loop of get_releases *)
(***************************************************************************)
EXTENDS Integers, Sequences, FiniteSets, TLC

VARIABLES
    \* ---- SpecRow: one pass of the loop body of _add_language_matrix
    tree_data,      \* the recursive tree of the release tag (list of entries)
    row_status,     \* "pending" | "built" | "ZeroDivisionError"
    row,            \* the row stored in the matrix, extension -> share
    \* ---- SpecSampler: one call of GitHubClient.get_releases by _add_language_matrix
    api_releases,   \* every release of the repository, in the order the API lists them
    rel_call,       \* the arguments of the call
    rel_status,     \* "pending" | "returned" | "ZeroDivisionError"
    rel_result,     \* the list get_releases returned
    row_dates,      \* the 'date' of the rows built from the list, and how the loop ended
    \* ---- SpecClient: the calls of GitHubClient._get on one client
    now,                \* time(), in seconds
    last_search_time,   \* GitHubClient.last_search_time
    hourly_rate_limit,  \* GitHubClient.hourly_rate_limit
    cached_url,         \* GitHubClient._cached_url ("None" before the first caching call)
    calls,              \* the last two calls of _get: when the request was sent, how it ended
    \* ---- Spec: one RepositoriesAnalytics instance and its folder
    repos_summary,          \* RepositoriesAnalytics._repos_summary
    language_matrices,      \* RepositoriesAnalytics._language_matrices
    existing_repositories,  \* RepositoriesAnalytics.existing_repositories
    disk,                   \* the folder "data"
    flush,                  \* the to_csv call in progress, if any
    last_op,                \* the last operation on the store and how it ended
    plain,                  \* only collect calls with update=False so far
    \* ---- SpecPager: one paged call, get_repositories or the loop of get_releases
    pg_world,       \* the API side: pages with items, size of the last one, failing request
    pg_call,        \* the call: its name and its page argument
    pg_status,      \* "idle" | "running" | "returned" | "HTTPError"
    pg_requests,    \* the requests sent so far, in order: page, per_page
    pg_items,       \* all_items / releases: the items gathered so far, page by page
    pg_last         \* last_page_number of get_repositories

rowVars == <<tree_data, row_status, row>>
samplerVars == <<api_releases, rel_call, rel_status, rel_result, row_dates>>
clientVars == <<now, last_search_time, hourly_rate_limit, cached_url, calls>>
storeVars == <<repos_summary, language_matrices, existing_repositories,
               disk, flush, last_op, plain>>
pagerVars == <<pg_world, pg_call, pg_status, pg_requests, pg_items, pg_last>>
vars == <<rowVars, samplerVars, clientVars, storeVars, pagerVars>>

(***************************************************************************)
(* Bounds of the model.                                                    *)
(***************************************************************************)
MaxTreeLen == 3     \* entries of a release tree
MaxSize == 3        \* small file sizes are 0..MaxSize
MaxReleases == 5    \* releases of one repository
MaxTick == 6        \* release timestamps are 0..MaxTick ticks
TicksPerDay == 2    \* clock resolution of a release timestamp
MaxTarget == 4      \* number_of_releases is 1..MaxTarget
StartClock == 4     \* time() when the client is constructed
MaxClock == 12      \* the clock stops the model here
MaxDelay == 1       \* longest oversleep of sleep(), longest round trip of a request
MaxSampled == 2     \* releases get_releases returns for one repository
MaxResults == 2     \* repositories of one search result
MaxMatrixRows == 2  \* rows of one language matrix

(***************************************************************************)
(* constants.py                                                            *)
(***************************************************************************)
SUPPORTED_LANGUAGES ==
    { ".js", ".jsx", ".ts", ".tsx", ".html", ".css", ".scss", ".vue",
      ".c", ".h", ".cpp", ".cc", ".hpp", ".rs", ".go", ".asm", ".s",
      ".java", ".kt", ".scala",
      ".cs", ".vb", ".fs",
      ".py", ".rb", ".php", ".pl", ".lua",
      ".sh", ".bat", ".cmd", ".ps1",
      ".hs", ".ex",
      ".swift", ".dart", ".m",
      ".r", ".jl", ".sql",
      ".cob", ".cbl", ".f90", ".f95", ".f", ".pas" }

(***************************************************************************)
(* Release trees.  A recursive git tree lists every path once, in path     *)
(* order; TreePaths is that order for the paths of the model.              *)
(***************************************************************************)
TreePaths == << "README", "a.c", "lib.js", "main.py", "pkg", "pkg/util.py" >>

\* the entry type the API reports for a path ("pkg" is the one directory)
TypeOfPath(path) == IF path = "pkg" THEN "tree" ELSE "blob"

\* os.path.splitext(path)[1]
Splitext1(path) ==
    CASE path = "README"      -> ""
      [] path = "a.c"         -> ".c"
      [] path = "lib.js"      -> ".js"
      [] path = "main.py"     -> ".py"
      [] path = "pkg"         -> ""
      [] path = "pkg/util.py" -> ".py"

\* file sizes the API may report; 500 and 1000 are the sizes of the
\* documented main.py / README scenario
FileSizes == (0..MaxSize) \cup {500, 1000}

RECURSIVE SortedSeq(_)
SortedSeq(S) ==
    IF S = {} THEN <<>>
    ELSE LET m == CHOOSE x \in S : \A y \in S : x <= y
         IN  <<m>> \o SortedSeq(S \ {m})

\* every tree of at most MaxTreeLen entries over TreePaths
Trees ==
    UNION { { [i \in 1..Len(SortedSeq(S)) |->
                 LET p == TreePaths[SortedSeq(S)[i]]
                 IN  [path |-> p, type |-> TypeOfPath(p),
                      size |-> IF TypeOfPath(p) = "tree" THEN 0 ELSE sz[SortedSeq(S)[i]]]]
              : sz \in [S -> FileSizes] }
            : S \in { T \in SUBSET (1..Len(TreePaths)) : Cardinality(T) <= MaxTreeLen } }

(***************************************************************************)
(* _add_language_matrix, lines 215-245: sizes per extension, normalisation *)
(* and the row written to the matrix.  Shares are kept as integers in      *)
(* units of 1/ShareScale (round(x, 4) yields a multiple of 1/10000).       *)
(***************************************************************************)
ShareScale == 10000

\* a defaultdict(int) is modelled as a function whose domain is its key set
DictGet(d, k) == IF k \in DOMAIN d THEN d[k] ELSE 0
DictPut(d, k, v) == [x \in (DOMAIN d) \cup {k} |-> IF x = k THEN v ELSE d[x]]
EmptyDict == [x \in {} |-> 0]

\* lines 216-224: the loop over the blobs of the tree, from entry i on
RECURSIVE ComputeFileSizesMutant(_, _, _)
ComputeFileSizesMutant(tree, i, file_sizes) ==
    IF i > Len(tree) THEN file_sizes
    ELSE LET file_info == tree[i]
             ext == Splitext1(file_info.path)
         IN  IF file_info.type # "blob"
             THEN ComputeFileSizesMutant(tree, i + 1, file_sizes)
             ELSE ComputeFileSizesMutant(tree, i + 1,
                      DictPut(file_sizes, ext, DictGet(file_sizes, ext) + file_info.size))

RECURSIVE ComputeFileSizes(_, _, _)
ComputeFileSizes(tree, i, file_sizes) ==
    IF i > Len(tree) THEN file_sizes
    ELSE LET file_info == tree[i]
             file_extension == Splitext1(file_info.path)
             file_size == file_info.size
         IN  IF file_info.type # "blob"
             THEN ComputeFileSizes(tree, i + 1, file_sizes)
             ELSE IF file_extension \notin SUPPORTED_LANGUAGES
             THEN ComputeFileSizes(tree, i + 1, file_sizes)
             ELSE ComputeFileSizes(tree, i + 1,
                      DictPut(file_sizes, file_extension,
                              DictGet(file_sizes, file_extension) + file_size))

RECURSIVE SumValues(_)
SumValues(d) ==
    IF DOMAIN d = {} THEN 0
    ELSE LET k == CHOOSE x \in DOMAIN d : TRUE
         IN  d[k] + SumValues([x \in (DOMAIN d) \ {k} |-> d[x]])

\* round(a / t, 4) in units of 1/ShareScale, t > 0.  Python rounds the
\* binary quotient to the nearest multiple of 0.0001; an exact decimal tie
\* (IsRoundTie) is the one case where the binary quotient decides the
\* direction, written here as round-half-even.
IsRoundTie(a, t) == 2 * ((ShareScale * a) % t) = t

\* rounding every quotient up instead of to the nearest multiple
Round4Ceil(a, t) == ((ShareScale * a) + t - 1) \div t

Round4(a, t) ==
    LET q  == (ShareScale * a) \div t
        r2 == 2 * ((ShareScale * a) % t)
    IN  IF r2 < t THEN q
        ELSE IF r2 > t THEN q + 1
        ELSE IF q % 2 = 0 THEN q ELSE q + 1

\* lines 226-230: raises ZeroDivisionError at the first key when total_size = 0
NormalizeRaises(file_sizes) ==
    DOMAIN file_sizes # {} /\ SumValues(file_sizes) = 0

Normalize(file_sizes) ==
    LET total_size == SumValues(file_sizes)
    IN  [ext \in DOMAIN file_sizes |-> Round4(file_sizes[ext], total_size)]

\* lines 236-245: the row as stored: one column per supported extension,
\* the columns the dict lacks are NaN and fillna(0) makes them 0
FillRow(temp_dict) ==
    [ext \in SUPPORTED_LANGUAGES |-> DictGet(temp_dict, ext)]

ZeroRow == [ext \in SUPPORTED_LANGUAGES |-> 0]

(***************************************************************************)
(* GitHubClient.get_releases, lines 190-225.  A timestamp is a number of   *)
(* ticks; published_at is NoDate when the API reports null.                *)
(***************************************************************************)
NoDate == 0 - 1

\* r["published_at"] or r["created_at"]  (lines 195 and 201)
EffectiveDate(r) == IF r.published_at # NoDate THEN r.published_at ELSE r.created_at

\* line 192: not prerelease and not draft
IsStable(r) == ~r.prerelease /\ ~r.draft

\* keeping the drafts
IsStableMutant(r) == ~r.prerelease

FilterStable(releases) == SelectSeq(releases, IsStable)

\* line 195: list.sort is stable; Insert puts r behind every element whose
\* key is not larger
RECURSIVE InsertByDate(_, _)
InsertByDate(sorted, r) ==
    IF sorted = <<>> THEN <<r>>
    ELSE IF EffectiveDate(Head(sorted)) <= EffectiveDate(r)
         THEN <<Head(sorted)>> \o InsertByDate(Tail(sorted), r)
         ELSE <<r>> \o sorted

\* returning the releases in the order of the API, newest first
SortByDateMutant(releases) == releases

RECURSIVE SortByDate(_)
SortByDate(releases) ==
    IF releases = <<>> THEN <<>>
    ELSE InsertByDate(SortByDate(SubSeq(releases, 1, Len(releases) - 1)),
                      releases[Len(releases)])

\* timedelta.days: whole days, rounded towards minus infinity
Days(ticks) == ticks \div TicksPerDay

Abs(x) == IF x < 0 THEN 0 - x ELSE x

\* rounding the interval to whole days before multiplying by the slot
TargetDateMutant(first_date, span_days, n, i) ==
    first_date + TicksPerDay * (i * (span_days \div (n - 1)))

\* line 211: first date + timedelta(days=int(i * target_interval_days)), with
\* target_interval_days = span_days / (n - 1) of line 206; i * span_days is
\* non-negative, so int() is the floor.  (The float product equals the exact
\* quotient for every n <= 8 and span below 400 days.)
TargetDate(first_date, span_days, n, i) ==
    first_date + TicksPerDay * ((i * span_days) \div (n - 1))

\* lines 214-217: min() returns the first element with the smallest key
ClosestIndex(dated, target_date) ==
    CHOOSE j \in 2..Len(dated) :
        /\ \A k \in 2..Len(dated) :
              Abs(Days(EffectiveDate(dated[j]) - target_date))
                  <= Abs(Days(EffectiveDate(dated[k]) - target_date))
        /\ \A k \in 2..(j - 1) :
              Abs(Days(EffectiveDate(dated[k]) - target_date))
                  > Abs(Days(EffectiveDate(dated[j]) - target_date))

\* a loop that runs one slot too many: range(1, number_of_releases)
SlotCountMutant(n) == n - 1

\* line 210: range(1, number_of_releases - 1)
SlotCount(n) == n - 2

\* lines 205-223, for a sorted list longer than n and n # 1
SpaceReleases(releases, n) ==
    LET first_date == EffectiveDate(releases[1])
        span_days == Days(EffectiveDate(releases[Len(releases)]) - first_date)
        slots == IF SlotCount(n) > 0 THEN SlotCount(n) ELSE 0
        selected ==
            <<releases[1]>>
            \o [i \in 1..slots |->
                  releases[ClosestIndex(releases, TargetDate(first_date, span_days, n, i))]]
            \o <<releases[Len(releases)]>>
    IN  SubSeq(selected, 1, IF n < Len(selected) THEN n ELSE Len(selected))

\* line 197; the division of line 206 raises when number_of_releases = 1
GetReleasesRaises(releases, stable_only, time_spaced, n) ==
    LET kept == IF stable_only THEN FilterStable(releases) ELSE releases
    IN  time_spaced /\ Len(kept) > n /\ n = 1

get_releases(releases, stable_only, time_spaced, n) ==
    LET kept == IF stable_only THEN FilterStable(releases) ELSE releases
        sorted == SortByDate(kept)
    IN  IF time_spaced /\ Len(sorted) > n
        THEN SpaceReleases(sorted, n)
        ELSE sorted

(***************************************************************************)
(* Release lists of the API: newest first by creation; at most one release *)
(* of a list is a pre-release, a draft, unpublished (published_at null) or *)
(* published one tick after its creation.                                  *)
(***************************************************************************)
\* the creation times of len releases, listed newest first
DescSeqs(len, top) ==
    { c \in [1..len -> 0..top] : \A i \in 1..(len - 1) : c[i] >= c[i + 1] }

ReleaseKinds == { "prerelease", "draft", "unpublished", "late" }

MakeRelease(tag, created, kind) ==
    [ tag |-> tag,
      created_at |-> created,
      published_at |-> IF kind = "unpublished" THEN NoDate
                       ELSE IF kind = "late" THEN created + 1
                       ELSE created,
      prerelease |-> (kind = "prerelease"),
      draft |-> (kind = "draft") ]

\* the list with creation times c; release number at, if any, is of the
\* given kind
ApiReleaseList(c, at, kind) ==
    [i \in 1..Len(c) |-> MakeRelease(i, c[i], IF i = at THEN kind ELSE "plain")]

(***************************************************************************)
(* Table cells.  A DataFrame cell is a Python value: a str, a date, an     *)
(* int, a float or a list.  A str carries its text; the text of a CSV      *)
(* field is what DataFrame.to_csv writes for the value.                    *)
(*   form "chars"     the characters s                                     *)
(*   form "iso-date"  YYYY-MM-DD of day num        (str(date))             *)
(*   form "digits"    the integer num              (str(int))              *)
(*   form "decimal"   num / ShareScale in decimal  (repr(float))           *)
(*   form "list-repr" the list display of items    (str(list))             *)
(***************************************************************************)
StrCell(s)    == [kind |-> "str",   form |-> "chars", s |-> s,  num |-> 0, items |-> <<>>]
DateCell(d)   == [kind |-> "date",  form |-> "",      s |-> "", num |-> d, items |-> <<>>]
IntCell(n)    == [kind |-> "int",   form |-> "",      s |-> "", num |-> n, items |-> <<>>]
FloatCell(x)  == [kind |-> "float", form |-> "",      s |-> "", num |-> x, items |-> <<>>]
ListCell(l)   == [kind |-> "list",  form |-> "",      s |-> "", num |-> 0, items |-> l]

\* DataFrame.to_csv: the text written for one cell (lines 87 and 100)
ToCsvField(cell) ==
    CASE cell.kind = "str"   -> [form |-> cell.form, s |-> cell.s, num |-> cell.num,
                                 items |-> cell.items]
      [] cell.kind = "date"  -> [form |-> "iso-date", s |-> "", num |-> cell.num, items |-> <<>>]
      [] cell.kind = "int"   -> [form |-> "digits", s |-> "", num |-> cell.num, items |-> <<>>]
      [] cell.kind = "float" -> [form |-> "decimal", s |-> "", num |-> cell.num, items |-> <<>>]
      [] cell.kind = "list"  -> [form |-> "list-repr", s |-> "", num |-> 0, items |-> cell.items]

\* pd.read_csv without parse_dates or converters (lines 122 and 134): a
\* numeric field becomes a number, every other field stays the str it is
ReadCsvField(field) ==
    CASE field.form = "digits"  -> IntCell(field.num)
      [] field.form = "decimal" -> FloatCell(field.num)
      [] OTHER -> [kind |-> "str", form |-> field.form, s |-> field.s, num |-> field.num,
                   items |-> field.items]

\* reading every field back as the value that was written
ReadCsvFieldMutant(field) ==
    CASE field.form = "digits"    -> IntCell(field.num)
      [] field.form = "decimal"   -> FloatCell(field.num)
      [] field.form = "iso-date"  -> DateCell(field.num)
      [] field.form = "list-repr" -> ListCell(field.items)
      [] OTHER -> StrCell(field.s)

\* A table row is a record of cells.  The share columns of a matrix row
\* are kept together in the field "shares", extension -> float in units of
\* 1/ShareScale: to_csv writes repr(float) and read_csv reads the same
\* float back, so the field is carried over as it is.  A row of the summary
\* table also has the field "index", its label in the DataFrame's index;
\* to_csv(index=False) does not write it and read_csv numbers the rows it
\* reads from 0.  (The rows of a language matrix are only ever appended, so
\* their labels are their positions and are left out.)
ToCsvRow(r) ==
    [c \in DOMAIN r \ {"index"} |-> IF c = "shares" THEN r[c] ELSE ToCsvField(r[c])]
ReadCsvRow(r) == [c \in DOMAIN r |-> IF c = "shares" THEN r[c] ELSE ReadCsvField(r[c])]
ToCsvTable(rows) == [i \in 1..Len(rows) |-> ToCsvRow(rows[i])]
ReadCsvTable(rows) == [i \in 1..Len(rows) |-> ReadCsvRow(rows[i])]

\* a row under the label of its DataFrame
WithIndex(r, label) ==
    [c \in DOMAIN r \cup {"index"} |-> IF c = "index" THEN label ELSE r[c]]

\* pd.read_csv(summary_path), line 122: the rows under a new RangeIndex
ReadCsvSummary(rows) == [i \in 1..Len(rows) |-> WithIndex(ReadCsvRow(rows[i]), i - 1)]

(***************************************************************************)
(* The repositories of the model and what the API reports for each of     *)
(* them.  acme/lib is also the repository an earlier run collected.        *)
(***************************************************************************)
Repos == { "octo/repo", "acme/lib", "solo/empty" }

SearchableRepos == Repos

\* full_name.split("/")  (line 96) and f"{owner}/{repo_name}" (line 132)
OwnerOf(full_name) ==
    CASE full_name = "octo/repo"  -> "octo"
      [] full_name = "acme/lib"   -> "acme"
      [] full_name = "solo/empty" -> "solo"
RepoNameOf(full_name) ==
    CASE full_name = "octo/repo"  -> "repo"
      [] full_name = "acme/lib"   -> "lib"
      [] full_name = "solo/empty" -> "empty"
FullNameOf(owner, repo_name) ==
    CHOOSE k \in Repos : OwnerOf(k) = owner /\ RepoNameOf(k) = repo_name

\* the tree of every release tag of a repository
RepoTree(full_name) ==
    CASE full_name = "octo/repo" ->
            << [path |-> "README", type |-> "blob", size |-> 1000],
               [path |-> "main.py", type |-> "blob", size |-> 500] >>
      [] full_name = "acme/lib" ->
            << [path |-> "a.c", type |-> "blob", size |-> 1],
               [path |-> "lib.js", type |-> "blob", size |-> 3],
               [path |-> "main.py", type |-> "blob", size |-> 3] >>
      [] full_name = "solo/empty" ->
            << [path |-> "README", type |-> "blob", size |-> 1] >>

\* how many releases get_releases returns for a repository: octo/repo has
\* MaxSampled of them, acme/lib one, solo/empty has no stable release
SampledReleases(full_name) ==
    CASE full_name = "octo/repo"  -> MaxSampled
      [] full_name = "acme/lib"   -> 1
      [] full_name = "solo/empty" -> 0

RepoTopics(full_name) == IF full_name = "octo/repo" THEN << "cli" >> ELSE << >>

\* the day of the j-th sampled release of a repository
ReleaseDay(full_name, j) == j

\* lines 226-245: the matrix row of the j-th sampled release
MatrixRowTable ==
    [full_name \in Repos |->
        LET shares == FillRow(Normalize(ComputeFileSizes(RepoTree(full_name), 1, EmptyDict)))
        IN  [j \in 1..MaxSampled |->
                [date |-> DateCell(ReleaseDay(full_name, j)), shares |-> shares]]]

MatrixRow(full_name, j) == MatrixRowTable[full_name][j]

\* get_issue_count is called on line 174 of RepositoriesAnalytics.py and is
\* not a method of GitHubClient.py; the counting operation described for the
\* gateway is assumed: the count read from the pagination boundary.
get_issue_count(full_name) == IF full_name = "octo/repo" THEN 7 ELSE 0

\* lines 163-176: the RepositorySummary of a repository
SummaryRowOf(full_name) ==
    [ name              |-> StrCell(full_name),
      created_at        |-> DateCell(1),
      updated_at        |-> DateCell(2),
      file_count        |-> IntCell(Len(RepoTree(full_name))),
      release_count     |-> IntCell(3),
      size              |-> IntCell(42),
      star_count        |-> IntCell(1000),
      fork_count        |-> IntCell(10),
      contributor_count |-> IntCell(2),
      commit_count      |-> IntCell(40),
      issue_count       |-> IntCell(get_issue_count(full_name)),
      topics            |-> ListCell(RepoTopics(full_name)) ]

SummaryRowTable == [full_name \in Repos |-> SummaryRowOf(full_name)]

SummaryRow(full_name) == SummaryRowTable[full_name]

(***************************************************************************)
(* RepositoriesAnalytics.  A store value st has                            *)
(*   summary   the rows of _repos_summary, in row order, each under its    *)
(*             index label                                                 *)
(*   matrices  _language_matrices as an insertion-ordered list of          *)
(*             [key, rows] items                                           *)
(*   existing  existing_repositories                                       *)
(***************************************************************************)
EmptyStore == [summary |-> <<>>, matrices |-> <<>>, existing |-> {}]

MatrixKeys(matrices) == { matrices[i].key : i \in 1..Len(matrices) }
MatrixIndex(matrices, key) == CHOOSE i \in 1..Len(matrices) : matrices[i].key = key
MatrixRows(matrices, key) == matrices[MatrixIndex(matrices, key)].rows
SummaryNames(summary) == { summary[i].name.s : i \in 1..Len(summary) }

\* line 66: self._repos_summary[self._repos_summary["name"] != key]
DropName(summary, key) ==
    LET keep(r) == r.name.s # key IN SelectSeq(summary, keep)

\* del self._language_matrices[key]
DropMatrix(matrices, key) ==
    LET keep(m) == m.key # key IN SelectSeq(matrices, keep)

\* __delitem__, lines 58-68.  raised: the KeyError of line 67 when the key
\* has a summary row and no matrix
Delitem(st, key) ==
    IF key \notin st.existing
    THEN [st |-> st, raised |-> FALSE]
    ELSE IF key \notin MatrixKeys(st.matrices)
    THEN [st |-> [st EXCEPT !.summary = DropName(st.summary, key)], raised |-> TRUE]
    ELSE [st |-> [summary  |-> DropName(st.summary, key),
                  matrices |-> DropMatrix(st.matrices, key),
                  existing |-> st.existing \ {key}],
          raised |-> FALSE]

\* lines 236-245: append one row to the matrix of key, creating the matrix first
AppendMatrixRow(matrices, key, r) ==
    IF key \in MatrixKeys(matrices)
    THEN [i \in 1..Len(matrices) |->
            IF matrices[i].key = key
            THEN [matrices[i] EXCEPT !.rows = Append(@, r)]
            ELSE matrices[i]]
    ELSE Append(matrices, [key |-> key, rows |-> <<r>>])

\* A call of the handler raises at most once, at its first failing call.
\* A fault names that call:
\*   fail  "none", "search" (search_repositories, line 265), "get_releases"
\*         (line 196), "row" (the tree of release number at cannot be
\*         fetched or its row cannot be computed, lines 207-234), "summary"
\*         (a call of _append_repository_summary, lines 163-176)
\*   repo  the position in the search result of the repository being
\*         processed when the call fails
Faults ==
    { [fail |-> "none", repo |-> 0, at |-> 0], [fail |-> "search", repo |-> 0, at |-> 0] }
    \cup { [fail |-> f, repo |-> i, at |-> 0] : f \in {"get_releases", "summary"},
                                                i \in 1..MaxResults }
    \cup { [fail |-> "row", repo |-> i, at |-> j] : i \in 1..MaxResults, j \in 1..MaxSampled }

\* the faults that name a call the handler can make for these search results
FaultsOf(repositories) ==
    { f \in Faults :
        \/ f.repo = 0
        \/ /\ f.repo <= Len(repositories)
           /\ f.fail \in {"row", "summary"} =>
                 /\ SampledReleases(repositories[f.repo]) > 0
                 /\ f.at <= SampledReleases(repositories[f.repo]) }

\* what the gateway does while the repository at position i is processed
OutcomeAt(key, fault, i) ==
    [ releases |-> SampledReleases(key),
      fail |-> IF fault.repo = i THEN fault.fail ELSE "none",
      at |-> fault.at ]

\* the loop of lines 202-245 from release j on
RECURSIVE AddRows(_, _, _, _)
AddRows(matrices, key, out, j) ==
    IF j > out.releases THEN [matrices |-> matrices, raised |-> FALSE]
    ELSE IF out.fail = "row" /\ out.at = j THEN [matrices |-> matrices, raised |-> TRUE]
    ELSE AddRows(AppendMatrixRow(matrices, key, MatrixRow(key, j)), key, out, j + 1)

\* _add_language_matrix, lines 181-247
AddLanguageMatrix(st, key, out) ==
    IF out.fail = "get_releases"
    THEN [st |-> st, raised |-> TRUE, any_release |-> FALSE]
    ELSE IF out.releases = 0
    THEN [st |-> st, raised |-> FALSE, any_release |-> FALSE]
    ELSE LET added == AddRows(st.matrices, key, out, 1)
         IN  [st |-> [st EXCEPT !.matrices = added.matrices],
              raised |-> added.raised,
              any_release |-> ~added.raised]

\* line 179: self._repos_summary.loc[label] = row.  A row that has the
\* label is overwritten, otherwise the table grows by the row.
SetLoc(summary, label, r) ==
    IF \E i \in 1..Len(summary) : summary[i].index = label
    THEN [i \in 1..Len(summary) |->
            IF summary[i].index = label THEN WithIndex(r, label) ELSE summary[i]]
    ELSE Append(summary, WithIndex(r, label))

\* _append_repository_summary, lines 151-179
AppendRepositorySummary(st, key, out) ==
    IF out.fail = "summary"
    THEN [st |-> st, raised |-> TRUE]
    ELSE [st |-> [st EXCEPT !.summary = SetLoc(@, Len(@), SummaryRow(key))],
          raised |-> FALSE]

\* line 271: repo["full_name"] in self and not update
SkipsExistingMutant(st, key, update) == FALSE

SkipsExisting(st, key, update) == key \in st.existing /\ ~update

\* the loop of collect_repository_data_for_search, lines 269-293, from
\* position i on; run is [st, raised, processed, skipped]
RECURSIVE CollectLoop(_, _, _, _, _)
CollectLoop(run, repositories, fault, update, i) ==
    IF i > Len(repositories) \/ run.raised THEN run
    ELSE
      LET key == repositories[i]
          st0 == run.st
      IN  IF SkipsExisting(st0, key, update)
          THEN CollectLoop([run EXCEPT !.skipped = @ + 1], repositories, fault, update, i + 1)
          ELSE
            LET removed == IF update THEN Delitem(st0, key)
                                     ELSE [st |-> st0, raised |-> FALSE]
                matrix == AddLanguageMatrix(removed.st, key, OutcomeAt(key, fault, i))
                summary == AppendRepositorySummary(matrix.st, key, OutcomeAt(key, fault, i))
            IN  IF removed.raised
                THEN [run EXCEPT !.st = removed.st, !.raised = TRUE]
                ELSE IF matrix.raised
                THEN [run EXCEPT !.st = matrix.st, !.raised = TRUE]
                ELSE IF ~matrix.any_release
                THEN CollectLoop([run EXCEPT !.st = matrix.st], repositories, fault, update, i + 1)
                ELSE IF summary.raised
                THEN [run EXCEPT !.st = summary.st, !.raised = TRUE]
                ELSE CollectLoop(
                        [run EXCEPT !.st = [summary.st EXCEPT !.existing = @ \cup {key}],
                                    !.processed = @ + 1],
                        repositories, fault, update, i + 1)

\* max_repositories: int = 1000  (line 249)
DefaultMaxRepositories == 1000

\* repositories[:max_repositories]
Take(s, n) == SubSeq(s, 1, IF n < Len(s) THEN n ELSE Len(s))

\* search_repositories is called on line 265 of RepositoriesAnalytics.py and
\* is not a method of GitHubClient.py; the search operation described for
\* the gateway is assumed: with page=-1 it returns the concatenated result
\* items of all pages, or raises the error of one of its requests.
search_repositories(repositories, fault) ==
    [raised |-> fault.fail = "search", repositories |-> repositories]

\* collect_repository_data_for_search, lines 249-296
CollectRepositoryData(st, repositories, fault, update, max_repositories) ==
    LET found == search_repositories(repositories, fault)
    IN  IF found.raised
        THEN [st |-> st, raised |-> TRUE, processed |-> 0, skipped |-> 0]
        ELSE CollectLoop([st |-> st, raised |-> FALSE, processed |-> 0, skipped |-> 0],
                         Take(found.repositories, max_repositories), fault, update, 1)

(***************************************************************************)
(* The target folder of to_csv / from_csv.                                 *)
(*   exists       the folder exists                                        *)
(*   has_summary  repositories_summary.csv exists; summary is its rows     *)
(*   has_langs    the language_matrices folder exists                      *)
(*   files        language_matrices/<owner>/<repo>.csv, by full name       *)
(***************************************************************************)
NoFiles == [k \in {} |-> <<>>]

AbsentFolder ==
    [exists |-> FALSE, has_summary |-> FALSE, summary |-> <<>>,
     has_langs |-> FALSE, files |-> NoFiles]

EmptyFolder == [AbsentFolder EXCEPT !.exists = TRUE]

\* lines 95-100: the file of one matrix, under its owner's folder
WriteMatrixFile(folder, item) ==
    [folder EXCEPT !.files =
        [k \in (DOMAIN folder.files) \cup {FullNameOf(OwnerOf(item.key), RepoNameOf(item.key))} |->
            IF k = FullNameOf(OwnerOf(item.key), RepoNameOf(item.key))
            THEN ToCsvTable(item.rows)
            ELSE folder.files[k]]]

RECURSIVE WriteMatrixFiles(_, _, _)
WriteMatrixFiles(folder, matrices, i) ==
    IF i > Len(matrices) THEN folder
    ELSE WriteMatrixFiles(WriteMatrixFile(folder, matrices[i]), matrices, i + 1)

\* to_csv run to its end, lines 70-100
ToCsv(st, folder, empty) ==
    LET cleared == IF empty /\ folder.exists THEN AbsentFolder ELSE folder
        made == [cleared EXCEPT !.exists = TRUE]
        summarised == [made EXCEPT !.has_summary = TRUE, !.summary = ToCsvTable(st.summary)]
        with_langs == [summarised EXCEPT !.has_langs = TRUE]
    IN  WriteMatrixFiles(with_langs, st.matrices, 1)

\* from_csv, lines 102-139; order is the order in which os.listdir yields
\* the matrix files.  raised: the folder, the summary file or the
\* language_matrices folder does not exist
FromCsvRaises(folder) ==
    \/ ~folder.exists
    \/ /\ folder.has_summary \/ folder.has_langs
       /\ ~folder.has_summary \/ ~folder.has_langs

FromCsv(folder, order) ==
    IF ~folder.has_summary /\ ~folder.has_langs
    THEN EmptyStore
    ELSE LET summary == ReadCsvSummary(folder.summary)
         IN  [ summary  |-> summary,
               matrices |-> [i \in 1..Len(order) |->
                               [key |-> order[i],
                                rows |-> ReadCsvTable(folder.files[order[i]])]],
               existing |-> SummaryNames(summary) ]

\* the orders in which the files of a folder can be listed
ListingOrders(folder) ==
    { o \in [1..Cardinality(DOMAIN folder.files) -> DOMAIN folder.files] :
        \A i, j \in DOMAIN o : i # j => o[i] # o[j] }

\* the instance of an earlier run: acme/lib with its one release
EarlierStore ==
    CollectRepositoryData(EmptyStore, << "acme/lib" >>,
                          [fail |-> "none", repo |-> 0, at |-> 0], FALSE, DefaultMaxRepositories).st

\* the folder that run left when its to_csv returned, and when the process
\* stopped between lines 91 and 95 of its to_csv
EarlierFolder == ToCsv(EarlierStore, AbsentFolder, TRUE)
EarlierPartialFolder == [EarlierFolder EXCEPT !.files = NoFiles]

InitialFolders == { AbsentFolder, EmptyFolder, EarlierFolder, EarlierPartialFolder }

NoCall == [stable_only |-> TRUE, time_spaced |-> TRUE, number_of_releases |-> 0]

RowIdle == tree_data = <<>> /\ row_status = "idle" /\ row = ZeroRow
NoRowDates == [status |-> "none", dates |-> <<>>]

SamplerIdle ==
    /\ api_releases = <<>> /\ rel_call = NoCall /\ rel_status = "idle" /\ rel_result = <<>>
    /\ row_dates = NoRowDates

(***************************************************************************)
(* GitHubClient.__init__ and GitHubClient._get, lines 8-55.                *)
(* (PagerIdle: no paged call is in progress.)                              *)
(***************************************************************************)
SecondsPerHour == 3600

\* hourly limits whose interval 3600 / hourly_rate_limit is a whole number of seconds
HourlyLimits == { 1200, 1800, 3600 }

Urls == { "search", "releases" }

\* 3600 / self.hourly_rate_limit  (line 40)
MinInterval(limit) == SecondsPerHour \div limit

Max(a, b) == IF a >= b THEN a ELSE b

\* line 40: max(0, self.last_search_time + 3600 / self.hourly_rate_limit - time())
SleepFor(last, limit, t) == Max(0, last + MinInterval(limit) - t)

PagerIdle ==
    /\ pg_world = [last_page |-> 0, tail |-> 0, fail_at |-> 0]
    /\ pg_call = [op |-> "none", page |-> 0]
    /\ pg_status = "idle" /\ pg_requests = <<>> /\ pg_items = <<>> /\ pg_last = 0

ClientIdle ==
    /\ now = 0 /\ last_search_time = 0 /\ hourly_rate_limit = SecondsPerHour
    /\ cached_url = "None" /\ calls = <<>>
StoreIdle ==
    /\ repos_summary = <<>> /\ language_matrices = <<>> /\ existing_repositories = {}
    /\ disk = AbsentFolder
    /\ flush = [step |-> "idle", empty |-> TRUE, next |-> 0, before |-> AbsentFolder]
    /\ last_op = [op |-> "none", flag |-> FALSE, result |-> "returned", skipped |-> FALSE]
    /\ plain = FALSE

InitClient ==
    /\ now = StartClock
    /\ last_search_time = 0
    /\ hourly_rate_limit \in HourlyLimits
    /\ cached_url = "None"
    /\ calls = <<>>
    /\ RowIdle
    /\ SamplerIdle
    /\ StoreIdle
    /\ PagerIdle

LastTwo(s) == IF Len(s) > 2 THEN SubSeq(s, Len(s) - 1, Len(s)) ELSE s

\* _get(url, raw=raw, cache=cache): sleep, send the request, then either
\* raise_for_status raises HttpError (line 44) or the call records
\* last_search_time and returns (lines 47-55).  oversleep is how much longer
\* than asked sleep() took, latency the round trip of the request.
Get(url, raw, cache, ok, oversleep, latency) ==
    LET sent_at == now + SleepFor(last_search_time, hourly_rate_limit, now) + oversleep
        done_at == sent_at + latency
    IN  /\ done_at <= MaxClock
        /\ now' = done_at
        /\ calls' = LastTwo(Append(calls,
                        [sent_at |-> sent_at,
                         outcome |-> IF ~ok THEN "HttpError"
                                     ELSE IF raw THEN "raw" ELSE "json"]))
        /\ IF ok
           THEN /\ last_search_time' = done_at
                /\ cached_url' = IF ~raw /\ cache THEN url ELSE cached_url
           ELSE UNCHANGED <<last_search_time, cached_url>>
        /\ UNCHANGED <<hourly_rate_limit, rowVars, pagerVars, samplerVars, storeVars>>

GetCall ==
    \E url \in Urls, raw \in BOOLEAN, cache \in BOOLEAN, ok \in BOOLEAN,
       oversleep \in 0..MaxDelay, latency \in 0..MaxDelay :
        Get(url, raw, cache, ok, oversleep, latency)

\* the caller works between two calls
Tick ==
    /\ now < MaxClock
    /\ now' = now + 1
    /\ UNCHANGED <<last_search_time, hourly_rate_limit, cached_url, calls,
                   rowVars, pagerVars, samplerVars, storeVars>>

NextClient == GetCall \/ Tick

SpecClient == InitClient /\ [][NextClient]_vars

InitSampler ==
    /\ \E len \in 0..MaxReleases :
         \E c \in DescSeqs(len, MaxTick), at \in 0..len, kind \in ReleaseKinds :
            /\ at = 0 => kind = "late"
            /\ api_releases = ApiReleaseList(c, at, kind)
    /\ rel_call = NoCall
    /\ rel_status = "pending"
    /\ rel_result = <<>>
    /\ row_dates = NoRowDates
    /\ RowIdle
    /\ ClientIdle
    /\ StoreIdle
    /\ PagerIdle

\* the call of _add_language_matrix, line 196:
\* get_releases(owner, repo_name, stable_only=True, time_spaced=True, n)
GetReleases ==
    /\ rel_status = "pending"
    /\ \E n \in 1..MaxTarget :
         /\ rel_call' = [stable_only |-> TRUE, time_spaced |-> TRUE,
                         number_of_releases |-> n]
         /\ IF GetReleasesRaises(api_releases, TRUE, TRUE, n)
            THEN /\ rel_status' = "ZeroDivisionError"
                 /\ rel_result' = <<>>
            ELSE /\ rel_status' = "returned"
                 /\ rel_result' = get_releases(api_releases, TRUE, TRUE, n)
    /\ UNCHANGED <<api_releases, row_dates, rowVars, pagerVars, clientVars, storeVars>>

\* line 234: release.get('published_at', release.get('created_at', '')).
\* The API's release has the key published_at, so get() returns its value,
\* null included, and fromisoformat(None) raises TypeError; .date() is the
\* day of the timestamp.
RowDate(release) ==
    [raised |-> release.published_at = NoDate, date |-> Days(release.published_at)]

\* the dates of the rows that the loop of lines 202-245 builds from release
\* j on, up to the first release whose date raises
RECURSIVE DateRowsFrom(_, _, _)
DateRowsFrom(releases, j, dates) ==
    IF j > Len(releases) THEN [status |-> "built", dates |-> dates]
    ELSE IF RowDate(releases[j]).raised THEN [status |-> "TypeError", dates |-> dates]
    ELSE DateRowsFrom(releases, j + 1, Append(dates, RowDate(releases[j]).date))

\* _add_language_matrix after line 196: no row for an empty list (lines
\* 198-199), else the rows of the releases in the order of the list
DateRows ==
    /\ rel_status = "returned"
    /\ row_dates.status = "none"
    /\ row_dates' = IF rel_result = <<>> THEN [status |-> "no release", dates |-> <<>>]
                    ELSE DateRowsFrom(rel_result, 1, <<>>)
    /\ UNCHANGED <<api_releases, rel_call, rel_status, rel_result,
                   rowVars, pagerVars, clientVars, storeVars>>

NextSampler == GetReleases \/ DateRows

SpecSampler == InitSampler /\ [][NextSampler]_vars

InitRow ==
    /\ tree_data \in Trees
    /\ row_status = "pending"
    /\ row = ZeroRow
    /\ SamplerIdle
    /\ ClientIdle
    /\ StoreIdle
    /\ PagerIdle

\* one pass of the loop body for the release whose tree is tree_data
BuildRow ==
    /\ row_status = "pending"
    /\ LET file_sizes == ComputeFileSizes(tree_data, 1, EmptyDict)
       IN  IF NormalizeRaises(file_sizes)
           THEN /\ row_status' = "ZeroDivisionError"
                /\ row' = row
           ELSE /\ row_status' = "built"
                /\ row' = FillRow(Normalize(file_sizes))
    /\ UNCHANGED <<tree_data, samplerVars, pagerVars, clientVars, storeVars>>

NextRow == BuildRow

SpecRow == InitRow /\ [][NextRow]_vars

(***************************************************************************)
(* Spec: one RepositoriesAnalytics instance, constructed empty, on which   *)
(* collect_repository_data_for_search, del and from_csv are called; the    *)
(* folder "data" is what an earlier run left.                              *)
(* SpecFolder: to_csv and from_csv on the folder "data", for an instance   *)
(* that one collect call has filled.                                       *)
(***************************************************************************)
\* search results: at most MaxResults repositories, repetitions allowed
SearchResults == UNION { [1..n -> SearchableRepos] : n \in 0..MaxResults }

CurrentStore ==
    [summary |-> repos_summary, matrices |-> language_matrices,
     existing |-> existing_repositories]

SetStore(st) ==
    /\ repos_summary' = st.summary
    /\ language_matrices' = st.matrices
    /\ existing_repositories' = st.existing

NotFlushing == [step |-> "idle", empty |-> TRUE, next |-> 0, before |-> AbsentFolder]

Init ==
    /\ repos_summary = <<>>
    /\ language_matrices = <<>>
    /\ existing_repositories = {}
    /\ disk \in InitialFolders
    /\ flush = NotFlushing
    /\ last_op = [op |-> "init", flag |-> FALSE, result |-> "returned", skipped |-> FALSE]
    /\ plain = TRUE
    /\ RowIdle
    /\ SamplerIdle
    /\ ClientIdle
    /\ PagerIdle

\* the instance is one that a collect call on an empty instance leaves
InitFolder ==
    /\ \E repositories \in SearchResults :
         \E fault \in FaultsOf(repositories) :
            LET st == CollectRepositoryData(EmptyStore, repositories, fault, FALSE,
                                            DefaultMaxRepositories).st
            IN  /\ repos_summary = st.summary
                /\ language_matrices = st.matrices
                /\ existing_repositories = st.existing
    /\ disk \in InitialFolders
    /\ flush = NotFlushing
    /\ last_op = [op |-> "collect", flag |-> FALSE, result |-> "returned", skipped |-> FALSE]
    /\ plain = FALSE
    /\ RowIdle
    /\ SamplerIdle
    /\ ClientIdle
    /\ PagerIdle

RowsWithinBound(st) ==
    \A i \in 1..Len(st.matrices) : Len(st.matrices[i].rows) <= MaxMatrixRows

\* analytics.collect_repository_data_for_search(client, query, update=update)
Collect ==
    /\ flush.step = "idle"
    /\ \E repositories \in SearchResults, update \in BOOLEAN :
         \E fault \in FaultsOf(repositories) :
            LET run == CollectRepositoryData(CurrentStore, repositories, fault,
                                             update, DefaultMaxRepositories)
            IN  /\ RowsWithinBound(run.st)
                /\ SetStore(run.st)
                /\ last_op' = [op |-> "collect", flag |-> update,
                               result |-> IF run.raised THEN "raised" ELSE "returned",
                               skipped |-> (run.skipped > 0)]
                /\ plain' = (plain /\ ~update)
    /\ UNCHANGED <<disk, flush, rowVars, pagerVars, samplerVars, clientVars>>

\* del analytics[key]
Remove ==
    /\ flush.step = "idle"
    /\ \E key \in Repos :
         LET removed == Delitem(CurrentStore, key)
         IN  /\ SetStore(removed.st)
             /\ last_op' = [op |-> "delitem", flag |-> FALSE,
                            result |-> IF removed.raised THEN "raised" ELSE "returned", skipped |-> FALSE]
    /\ plain' = FALSE
    /\ UNCHANGED <<disk, flush, rowVars, pagerVars, samplerVars, clientVars>>

\* analytics = RepositoriesAnalytics.from_csv("data", client)
Load ==
    /\ flush.step = "idle"
    /\ IF FromCsvRaises(disk)
       THEN /\ UNCHANGED <<repos_summary, language_matrices, existing_repositories>>
            /\ last_op' = [op |-> "from_csv", flag |-> FALSE, result |-> "raised", skipped |-> FALSE]
       ELSE /\ \E order \in ListingOrders(disk) : SetStore(FromCsv(disk, order))
            /\ last_op' = [op |-> "from_csv", flag |-> FALSE, result |-> "returned", skipped |-> FALSE]
    /\ plain' = FALSE
    /\ UNCHANGED <<disk, flush, rowVars, pagerVars, samplerVars, clientVars>>

StoreUnchanged == UNCHANGED <<repos_summary, language_matrices, existing_repositories>>

FlushDone(empty) ==
    /\ flush' = NotFlushing
    /\ last_op' = [op |-> "to_csv", flag |-> empty, result |-> "returned", skipped |-> FALSE]

\* to_csv("data", empty), lines 78-80: the call starts and clears the folder
ToCsvClear ==
    /\ flush.step = "idle"
    /\ \E empty \in BOOLEAN :
         /\ disk' = IF empty /\ disk.exists THEN AbsentFolder ELSE disk
         /\ flush' = [step |-> "makedirs", empty |-> empty, next |-> 0, before |-> disk]
    /\ UNCHANGED <<last_op, plain, rowVars, pagerVars, samplerVars, clientVars>>
    /\ StoreUnchanged

\* line 83: os.makedirs(folder_path, exist_ok=True)
ToCsvMakedirs ==
    /\ flush.step = "makedirs"
    /\ disk' = [disk EXCEPT !.exists = TRUE]
    /\ flush' = [flush EXCEPT !.step = "summary"]
    /\ UNCHANGED <<last_op, plain, rowVars, pagerVars, samplerVars, clientVars>>
    /\ StoreUnchanged

\* lines 86-87: the summary file
ToCsvSummary ==
    /\ flush.step = "summary"
    /\ disk' = [disk EXCEPT !.has_summary = TRUE, !.summary = ToCsvTable(repos_summary)]
    /\ flush' = [flush EXCEPT !.step = "langdir"]
    /\ UNCHANGED <<last_op, plain, rowVars, pagerVars, samplerVars, clientVars>>
    /\ StoreUnchanged

\* lines 90-91: the language_matrices folder; the call ends here when the
\* store has no matrix
ToCsvLangDir ==
    /\ flush.step = "langdir"
    /\ disk' = [disk EXCEPT !.has_langs = TRUE]
    /\ IF language_matrices = <<>>
       THEN FlushDone(flush.empty)
       ELSE /\ flush' = [flush EXCEPT !.step = "matrices", !.next = 1]
            /\ UNCHANGED last_op
    /\ UNCHANGED <<plain, rowVars, pagerVars, samplerVars, clientVars>>
    /\ StoreUnchanged

\* lines 95-100: one pass of the loop over the matrices
ToCsvMatrix ==
    /\ flush.step = "matrices"
    /\ disk' = WriteMatrixFile(disk, language_matrices[flush.next])
    /\ IF flush.next = Len(language_matrices)
       THEN FlushDone(flush.empty)
       ELSE /\ flush' = [flush EXCEPT !.next = @ + 1]
            /\ UNCHANGED last_op
    /\ UNCHANGED <<plain, rowVars, pagerVars, samplerVars, clientVars>>
    /\ StoreUnchanged

\* the process stops while to_csv runs; the next process starts with a new,
\* empty instance
Crash ==
    /\ flush.step # "idle"
    /\ SetStore(EmptyStore)
    /\ flush' = NotFlushing
    /\ last_op' = [op |-> "crash", flag |-> flush.empty, result |-> "raised", skipped |-> FALSE]
    /\ plain' = FALSE
    /\ UNCHANGED <<disk, rowVars, pagerVars, samplerVars, clientVars>>

Next ==
    \/ Collect
    \/ Remove
    \/ Load

Spec == Init /\ [][Next]_vars

NextFolder ==
    \/ ToCsvClear
    \/ ToCsvMakedirs
    \/ ToCsvSummary
    \/ ToCsvLangDir
    \/ ToCsvMatrix
    \/ Crash
    \/ Load
    \/ Remove

SpecFolder == InitFolder /\ [][NextFolder]_vars

(***************************************************************************)
(* SpecMatrix: _add_language_matrix alone, called as line 279 calls it, on *)
(* an instance that one collect call has filled.  last_op records the call:*)
(* the repository, the gateway call that fails (fail, and the release at   *)
(* for a failing row), the rows the repository had before, and the result. *)
(***************************************************************************)
RowCount(matrices, key) ==
    IF key \in MatrixKeys(matrices) THEN Len(MatrixRows(matrices, key)) ELSE 0

InitMatrix ==
    /\ \E repositories \in SearchResults :
         \E fault \in FaultsOf(repositories) :
            LET st == CollectRepositoryData(EmptyStore, repositories, fault, FALSE,
                                            DefaultMaxRepositories).st
            IN  /\ repos_summary = st.summary
                /\ language_matrices = st.matrices
                /\ existing_repositories = st.existing
    /\ disk = AbsentFolder
    /\ flush = NotFlushing
    /\ last_op = [op |-> "collect", flag |-> FALSE, result |-> "returned", skipped |-> FALSE]
    /\ plain = FALSE
    /\ RowIdle
    /\ SamplerIdle
    /\ ClientIdle
    /\ PagerIdle

\* any_release = self._add_language_matrix(client, repo, n_releases)
AddMatrix ==
    /\ flush.step = "idle"
    /\ \E key \in Repos, fail \in {"none", "get_releases", "row"}, at \in 0..MaxSampled :
         LET out == [releases |-> SampledReleases(key), fail |-> fail, at |-> at]
             run == AddLanguageMatrix(CurrentStore, key, out)
         IN  /\ (fail = "row") = (at > 0)
             /\ at <= SampledReleases(key)
             /\ RowsWithinBound(run.st)
             /\ SetStore(run.st)
             /\ last_op' = [op |-> "_add_language_matrix", key |-> key,
                            fail |-> fail, at |-> at,
                            rows_before |-> RowCount(language_matrices, key),
                            result |-> IF run.raised THEN "raised"
                                       ELSE IF run.any_release THEN "True" ELSE "False"]
    /\ UNCHANGED <<disk, flush, plain, rowVars, pagerVars, samplerVars, clientVars>>

NextMatrix == AddMatrix

SpecMatrix == InitMatrix /\ [][NextMatrix]_vars

(***************************************************************************)
(* Paged calls of GitHubClient: get_repositories (lines 102-156) and the   *)
(* page loop of get_releases (lines 175-188).                              *)
(* The API side, pg_world:                                                 *)
(*   last_page  the number of pages that hold items (0: no item at all)    *)
(*   tail       the number of items of the last of these pages             *)
(*   fail_at    the request of the call that ends in an HTTP error (0: none)*)
(* The items of a page are kept as one chunk [page, count].                *)
(***************************************************************************)
MaxLastPage == 11   \* pages with items on the API side
MaxFailAt == 3      \* the failing request is one of the first MaxFailAt

\* params["per_page"] = 100  (line 132) and per_page=100 (line 147)
SearchPerPage == 100

\* min(self._get_last_page_number(raw_response), 10)  (line 138)
MaxSearchPages == 10

\* "per_page": 100  (line 180)
ReleasesPerPage == 100

\* for page in range(1, 1000)  (line 178)
PageLimit == 1000

Min(a, b) == IF a <= b THEN a ELSE b

\* the number of items the API returns for a page
PageCount(world, page) ==
    IF page < world.last_page THEN SearchPerPage
    ELSE IF page = world.last_page THEN world.tail
    ELSE 0

Chunk(world, page) == [page |-> page, count |-> PageCount(world, page)]

\* the query string of a link of the Link header: the API puts the page
\* parameter last
LinkParams(page, per_page) ==
    << [name |-> "q", value |-> 0],
       [name |-> "per_page", value |-> per_page],
       [name |-> "page", value |-> page] >>

\* response.headers['Link'] of the answer to a request for a page; <<>> when
\* the answer has no Link header (everything fits on one page)
LinkHeader(world, page, per_page) ==
    IF world.last_page <= 1 THEN <<>>
    ELSE (IF page > 1
          THEN << [rel |-> "prev", params |-> LinkParams(page - 1, per_page)] >>
          ELSE <<>>)
         \o (IF page < world.last_page
             THEN << [rel |-> "next", params |-> LinkParams(page + 1, per_page)],
                     [rel |-> "last", params |-> LinkParams(world.last_page, per_page)] >>
             ELSE <<>>)
         \o (IF page > 1
             THEN << [rel |-> "first", params |-> LinkParams(1, per_page)] >>
             ELSE <<>>)

\* the names of the query parameters whose text ends with "page="
EndsWithPage(name) == name \in {"page", "per_page"}

\* taking the text behind the first "page=" of the link
PageOfUrlMutant(params) ==
    LET i == CHOOSE k \in 1..Len(params) :
                /\ EndsWithPage(params[k].name)
                /\ \A m \in 1..(k - 1) : ~EndsWithPage(params[m].name)
    IN  params[i].value

\* line 79: int(last_page_url.split('page=')[-1].split('&')[0]), the number
\* behind the last "page=" of the link
PageOfUrl(params) ==
    LET i == CHOOSE k \in 1..Len(params) :
                /\ EndsWithPage(params[k].name)
                /\ \A m \in (k + 1)..Len(params) : ~EndsWithPage(params[m].name)
    IN  params[i].value

\* _get_last_page_number, lines 66-80
_get_last_page_number(link_header) ==
    IF \E i \in 1..Len(link_header) : link_header[i].rel = "last"
    THEN LET i == CHOOSE k \in 1..Len(link_header) :
                     /\ link_header[k].rel = "last"
                     /\ \A m \in 1..(k - 1) : link_header[m].rel # "last"
         IN  PageOfUrl(link_header[i].params)
    ELSE 0 - 1

\* the request about to be sent is the one the API answers with an error
RequestFails == pg_world.fail_at = Len(pg_requests) + 1

PagerWorlds ==
    { w \in [last_page : 0..MaxLastPage, tail : {0, 1, SearchPerPage}, fail_at : 0..MaxFailAt] :
        (w.last_page = 0) = (w.tail = 0) }

InitPager ==
    /\ pg_world \in PagerWorlds
    /\ pg_call = [op |-> "none", page |-> 0]
    /\ pg_status = "idle"
    /\ pg_requests = <<>>
    /\ pg_items = <<>>
    /\ pg_last = 0
    /\ RowIdle
    /\ SamplerIdle
    /\ ClientIdle
    /\ StoreIdle

PagerFrame == UNCHANGED <<pg_world, rowVars, samplerVars, clientVars, storeVars>>

\* get_repositories(query, sort, page=-1), lines 129-140: the probe request
\* for page 1, the number of pages, the items of page 1
SearchProbe ==
    /\ pg_status = "idle"
    /\ pg_call' = [op |-> "get_repositories", page |-> 0 - 1]
    /\ pg_requests' = << [page |-> 1, per_page |-> SearchPerPage] >>
    /\ IF RequestFails
       THEN /\ pg_status' = "HTTPError"
            /\ UNCHANGED <<pg_items, pg_last>>
       ELSE /\ pg_last' = Min(_get_last_page_number(LinkHeader(pg_world, 1, SearchPerPage)),
                              MaxSearchPages)
            /\ pg_items' = << Chunk(pg_world, 1) >>
            /\ pg_status' = "running"
    /\ PagerFrame

\* lines 143-152: one pass of the loop over the other pages, a call of
\* get_repositories(page=current_page) that ends at line 156
SearchPage ==
    /\ pg_status = "running"
    /\ pg_call.op = "get_repositories"
    /\ Len(pg_requests) + 1 <= pg_last
    /\ pg_requests' = Append(pg_requests,
                             [page |-> Len(pg_requests) + 1, per_page |-> SearchPerPage])
    /\ IF RequestFails
       THEN /\ pg_status' = "HTTPError"
            /\ UNCHANGED pg_items
       ELSE /\ pg_items' = Append(pg_items, Chunk(pg_world, Len(pg_requests) + 1))
            /\ UNCHANGED pg_status
    /\ UNCHANGED <<pg_call, pg_last>>
    /\ PagerFrame

\* line 154: return all_items
SearchReturn ==
    /\ pg_status = "running"
    /\ pg_call.op = "get_repositories"
    /\ Len(pg_requests) + 1 > pg_last
    /\ pg_status' = "returned"
    /\ UNCHANGED <<pg_call, pg_requests, pg_items, pg_last>>
    /\ PagerFrame

\* get_repositories(query, sort, per_page=100, page=page) with page # -1,
\* line 156: one request
SearchOnePage ==
    /\ pg_status = "idle"
    /\ \E page \in 1..MaxLastPage :
         /\ pg_call' = [op |-> "get_repositories", page |-> page]
         /\ pg_requests' = << [page |-> page, per_page |-> SearchPerPage] >>
         /\ IF RequestFails
            THEN /\ pg_status' = "HTTPError"
                 /\ UNCHANGED pg_items
            ELSE /\ pg_status' = "returned"
                 /\ pg_items' = << Chunk(pg_world, page) >>
    /\ UNCHANGED pg_last
    /\ PagerFrame

\* ending the loop at the first page that is not full
NoMoreReleasesMutant(page_releases) == page_releases.count < ReleasesPerPage

\* line 185: if not page_releases
NoMoreReleases(page_releases) == page_releases.count = 0

\* get_releases, lines 178-188: one pass of the page loop; an empty page
\* ends the loop.  The API side holds fewer than PageLimit pages, so the
\* loop always ends at the break of line 186.
ReleasesPage ==
    /\ pg_status \in {"idle", "running"}
    /\ pg_status = "running" => pg_call.op = "get_releases"
    /\ Len(pg_requests) + 1 < PageLimit
    /\ pg_call' = [op |-> "get_releases", page |-> 0]
    /\ pg_requests' = Append(pg_requests,
                             [page |-> Len(pg_requests) + 1, per_page |-> ReleasesPerPage])
    /\ IF RequestFails
       THEN /\ pg_status' = "HTTPError"
            /\ UNCHANGED pg_items
       ELSE IF NoMoreReleases(Chunk(pg_world, Len(pg_requests) + 1))
       THEN /\ pg_status' = "returned"
            /\ UNCHANGED pg_items
       ELSE /\ pg_status' = "running"
            /\ pg_items' = Append(pg_items, Chunk(pg_world, Len(pg_requests) + 1))
    /\ UNCHANGED pg_last
    /\ PagerFrame

NextPager ==
    \/ SearchProbe
    \/ SearchPage
    \/ SearchReturn
    \/ SearchOnePage
    \/ ReleasesPage

SpecPager == InitPager /\ [][NextPager]_vars

(***************************************************************************)
(* Properties of a row, stated on the tree itself.                         *)
(***************************************************************************)
RECURSIVE SumOver(_, _)
SumOver(f, S) ==
    IF S = {} THEN 0
    ELSE LET k == CHOOSE x \in S : TRUE
         IN  f[k] + SumOver(f, S \ {k})

\* the files of a tree whose extension is supported
SupportedFiles(tree) ==
    { i \in 1..Len(tree) : tree[i].type = "blob"
                            /\ Splitext1(tree[i].path) \in SUPPORTED_LANGUAGES }

BytesOfExt(tree, ext) ==
    SumOver([i \in 1..Len(tree) |-> tree[i].size],
            { i \in SupportedFiles(tree) : Splitext1(tree[i].path) = ext })

SupportedBytes(tree) ==
    SumOver([i \in 1..Len(tree) |-> tree[i].size], SupportedFiles(tree))

PopulatedExts(tree) == { Splitext1(tree[i].path) : i \in SupportedFiles(tree) }

RowSum == SumOver(row, SUPPORTED_LANGUAGES)

(***************************************************************************)
(* Properties of get_releases, stated on the API's release list.           *)
(***************************************************************************)
\* the stable releases of the API list: the input of the time spacing
StableReleases == { api_releases[i] : i \in { j \in 1..Len(api_releases) :
                                               ~api_releases[j].prerelease
                                               /\ ~api_releases[j].draft } }

\* C4: when more stable releases exist than targetCount >= 2, the spaced
\* list has exactly targetCount elements, starts with a chronologically
\* first release and ends with a chronologically last one.
C4_SpacedCountAndEnds ==
    (/\ rel_status = "returned"
     /\ rel_call.number_of_releases >= 2
     /\ Cardinality(StableReleases) > rel_call.number_of_releases)
        => /\ Len(rel_result) = rel_call.number_of_releases
           /\ rel_result[1] \in StableReleases
           /\ rel_result[Len(rel_result)] \in StableReleases
           /\ \A r \in StableReleases :
                 /\ EffectiveDate(rel_result[1]) <= EffectiveDate(r)
                 /\ EffectiveDate(r) <= EffectiveDate(rel_result[Len(rel_result)])

\* five stable releases over more than a day, spaced down to three
C4_Witness ==
    /\ rel_status = "returned"
    /\ rel_call.number_of_releases = 3
    /\ Cardinality(StableReleases) = 5
    /\ Len(rel_result) = 3
    /\ EffectiveDate(rel_result[3]) - EffectiveDate(rel_result[1]) > TicksPerDay

\* C10: the list handed to the matrix builder holds each release at most once.
C10_NoReleaseTwice ==
    (rel_status = "returned" /\ rel_call.number_of_releases >= 2)
        => \A i, j \in 1..Len(rel_result) :
              i # j => rel_result[i].tag # rel_result[j].tag

(***************************************************************************)
(* Properties of the rate limit.                                           *)
(***************************************************************************)
\* C3: of two successive calls of _get on one client, however the earlier
\* one ended, the later request is sent no earlier than
\* 3600 / hourly_rate_limit seconds after the earlier one.
C3_MinSpacing ==
    Len(calls) = 2
        => calls[2].sent_at - calls[1].sent_at >= MinInterval(hourly_rate_limit)

\* C5: a tree whose supported-extension files total zero bytes raises no
\* fault; the row is omitted or has every share equal to 0.
C5_ZeroByteGuard ==
    (row_status # "pending" /\ SupportedBytes(tree_data) = 0)
        => (row_status = "built" /\ row = ZeroRow)

\* C6 as stated: every share of a built row is non-negative and the shares
\* of the row sum to at most 1.0.
C6_SumAtMostOne ==
    row_status = "built"
        => /\ \A ext \in SUPPORTED_LANGUAGES : row[ext] >= 0
           /\ RowSum <= ShareScale

\* C6 amended: every share of a built row lies between 0 and 1.0, and the
\* row sum exceeds 1.0 by at most half a rounding unit (0.00005) for each
\* populated extension.
C6_SumWithinRounding ==
    row_status = "built"
        => /\ \A ext \in SUPPORTED_LANGUAGES : row[ext] >= 0 /\ row[ext] <= ShareScale
           /\ 2 * RowSum <= 2 * ShareScale + Cardinality(PopulatedExts(tree_data))

\* a built row whose shares sum to more than 1.0
C6_Witness ==
    row_status = "built" /\ RowSum > ShareScale

\* C7: with a non-zero supported total, every share is the extension's bytes
\* over the bytes of supported-extension files only, rounded to 4 places, so
\* the row sums to 1.0 within half a rounding unit per populated extension;
\* main.py (500) with README (1000) gives .py = 1.0 and 0 elsewhere.
C7_SupportedDenominator ==
    (row_status = "built" /\ SupportedBytes(tree_data) > 0)
        => /\ \A ext \in SUPPORTED_LANGUAGES :
                 row[ext] = Round4(BytesOfExt(tree_data, ext), SupportedBytes(tree_data))
           /\ 2 * RowSum <= 2 * ShareScale + Cardinality(PopulatedExts(tree_data))
           /\ 2 * RowSum >= 2 * ShareScale - Cardinality(PopulatedExts(tree_data))
           /\ (tree_data = << [path |-> "README", type |-> "blob", size |-> 1000],
                              [path |-> "main.py", type |-> "blob", size |-> 500] >>
                 => row = [ZeroRow EXCEPT ![".py"] = ShareScale])

\* the documented scenario, built: main.py of 500 bytes beside README of 1000
C7_Witness ==
    /\ row_status = "built"
    /\ tree_data = << [path |-> "README", type |-> "blob", size |-> 1000],
                      [path |-> "main.py", type |-> "blob", size |-> 500] >>
    /\ row[".py"] = ShareScale

(***************************************************************************)
(* Properties of the store and of its folder.                              *)
(***************************************************************************)
\* how many rows of the summary table carry the name key
SummaryCount(summary, key) ==
    Cardinality({ i \in 1..Len(summary) : summary[i].name.s = key })

\* C1: after any sequence of collect and remove calls, aborted collect
\* calls included, the summary table and the language matrices hold the
\* same set of repository keys.
C1_Lockstep ==
    last_op.op \in {"init", "collect", "delitem"} =>
        SummaryNames(repos_summary) = MatrixKeys(language_matrices)

\* C2: starting from an empty store, after collect calls with update=False
\* only, every repository key is in at most one row of the summary table.
C2_AtMostOneRow ==
    plain => \A key \in Repos : SummaryCount(repos_summary, key) <= 1

\* C2, the case: a collect call with update=False that met a repository the
\* store already held (in an earlier query or earlier in the same results)
\* has returned, and the store holds a row.
C2_Witness ==
    /\ plain
    /\ last_op.op = "collect"
    /\ last_op.skipped
    /\ last_op.result = "returned"
    /\ \E key \in Repos : SummaryCount(repos_summary, key) = 1

\* the values of two tables agree as written text, whatever their types
SameText(a, b) == ToCsvTable(a) = ToCsvTable(b)

\* two stores hold the same summary rows, the same matrix keys with the
\* same rows per key, and the same existence index
SameData(a, b) ==
    /\ SameText(a.summary, b.summary)
    /\ MatrixKeys(a.matrices) = MatrixKeys(b.matrices)
    /\ \A key \in MatrixKeys(a.matrices) \cap MatrixKeys(b.matrices) :
           SameText(MatrixRows(a.matrices, key), MatrixRows(b.matrices, key))
    /\ a.existing = b.existing

\* C8: when to_csv has returned, with either value of empty and whatever
\* the folder held before, from_csv of the folder gives the store that was
\* written: same summary rows, same matrix keys and rows, same existence
\* index.
C8_RoundTrip ==
    (last_op.op = "to_csv" /\ flush.step = "idle") =>
        /\ ~FromCsvRaises(disk)
        /\ \A order \in ListingOrders(disk) : SameData(FromCsv(disk, order), CurrentStore)

\* C9: at every point of a to_csv call the folder holds either what it held
\* before the call or everything the call writes.
C9_SnapshotAtomicity ==
    flush.step # "idle" =>
        disk \in { flush.before, ToCsv(CurrentStore, flush.before, flush.empty) }

(***************************************************************************)
(* Further properties of get_releases.                                     *)
(***************************************************************************)
\* C11: for every release list and every targetCount >= 2, the list that
\* get_releases returns, sampled or not, is non-decreasing in effective date.
C11_DateOrder ==
    (rel_status = "returned" /\ rel_call.number_of_releases >= 2)
        => \A i, j \in 1..Len(rel_result) :
              i < j => EffectiveDate(rel_result[i]) <= EffectiveDate(rel_result[j])

\* five releases listed newest first, sampled down to three of increasing date
C11_Witness ==
    /\ rel_status = "returned"
    /\ rel_call.number_of_releases = 3
    /\ Len(api_releases) = 5
    /\ Len(rel_result) = 3
    /\ EffectiveDate(api_releases[1]) > EffectiveDate(api_releases[5])
    /\ EffectiveDate(rel_result[1]) < EffectiveDate(rel_result[2])
    /\ EffectiveDate(rel_result[2]) < EffectiveDate(rel_result[3])

(***************************************************************************)
(* Properties of the paged calls.                                          *)
(***************************************************************************)
\* len(all_items): the number of items of the accumulated pages
RECURSIVE ItemCount(_)
ItemCount(items) ==
    IF items = <<>> THEN 0 ELSE items[1].count + ItemCount(Tail(items))

\* the pages a call with page = -1 has to read: page 1 alone when the probe's
\* answer names no last page, else pages 1..min(L, 10)
PagesToRead(world) ==
    IF world.last_page <= 1 THEN 1
    ELSE IF world.last_page <= 10 THEN world.last_page ELSE 10

\* C12: get_repositories with page = -1 sends a probe for page 1 with
\* per_page = 100, then pages 2..min(L, 10) one after another in increasing
\* order (no further request when the probe names no last page); it sends at
\* most 10 requests, returns at most 1000 items, and its result is the
\* concatenation of the pages' items in page order.
C12_AllPages ==
    (pg_call.op = "get_repositories" /\ pg_call.page = 0 - 1) =>
        /\ Len(pg_requests) <= PagesToRead(pg_world)
        /\ Len(pg_requests) <= 10
        /\ \A i \in 1..Len(pg_requests) : pg_requests[i] = [page |-> i, per_page |-> 100]
        /\ pg_status = "returned" =>
             /\ Len(pg_requests) = PagesToRead(pg_world)
             /\ Len(pg_items) = Len(pg_requests)
             /\ \A i \in 1..Len(pg_items) :
                    pg_items[i] = [page |-> i, count |-> PageCount(pg_world, i)]
             /\ ItemCount(pg_items) <= 1000

\* eleven pages on the API side: ten requests, a thousand items returned
C12_Witness ==
    /\ pg_call.op = "get_repositories"
    /\ pg_call.page = 0 - 1
    /\ pg_status = "returned"
    /\ pg_world.last_page = 11
    /\ Len(pg_requests) = 10
    /\ ItemCount(pg_items) = 1000

\* C13: the page loop of get_releases requests pages 1, 2, 3, ... in
\* increasing order, each page once, and sends no request after the first
\* empty page; the accumulated list is the concatenation of the non-empty
\* pages before it.  Two pages of 100 and 0 items give 100 releases with
\* two requests.
C13_ReleasePaging ==
    pg_call.op = "get_releases" =>
        /\ \A i \in 1..Len(pg_requests) : pg_requests[i] = [page |-> i, per_page |-> 100]
        /\ \A i \in 1..(Len(pg_requests) - 1) : PageCount(pg_world, i) > 0
        /\ pg_status = "returned" =>
             /\ PageCount(pg_world, Len(pg_requests)) = 0
             /\ Len(pg_items) = Len(pg_requests) - 1
             /\ \A i \in 1..Len(pg_items) :
                    pg_items[i] = [page |-> i, count |-> PageCount(pg_world, i)]
             /\ (PageCount(pg_world, 1) = 100 /\ PageCount(pg_world, 2) = 0)
                    => (Len(pg_requests) = 2 /\ ItemCount(pg_items) = 100)

\* a page of 100 releases, then an empty page: two requests, 100 releases
C13_Witness ==
    /\ pg_call.op = "get_releases"
    /\ pg_status = "returned"
    /\ PageCount(pg_world, 1) = 100
    /\ PageCount(pg_world, 2) = 0
    /\ Len(pg_requests) = 2
    /\ ItemCount(pg_items) = 100

(***************************************************************************)
(* Properties of _add_language_matrix.                                     *)
(***************************************************************************)
\* C14: when building the row of one sampled release fails, the release is
\* skipped and the other releases are still processed; the call returns
\* true exactly when at least one row was produced, and when none was
\* produced the repository gets no entry.
C14_FailingRowSkipped ==
    (last_op.op = "_add_language_matrix" /\ last_op.fail = "row") =>
        LET produced == RowCount(language_matrices, last_op.key) - last_op.rows_before
        IN  /\ last_op.result \in {"True", "False"}
            /\ produced = SampledReleases(last_op.key) - 1
            /\ (last_op.result = "True") = (produced >= 1)
            /\ (produced = 0 /\ last_op.rows_before = 0)
                  => last_op.key \notin MatrixKeys(language_matrices)

(***************************************************************************)
(* The slots of the time spacing.                                          *)
(***************************************************************************)
\* the stable releases in the order of line 195
SortedStable == SortByDate(FilterStable(api_releases))

\* whole days between the first and the last release
SpanDays == Days(EffectiveDate(SortedStable[Len(SortedStable)]) - EffectiveDate(SortedStable[1]))

\* firstDate + floor(i * interval) days, interval = span / (targetCount - 1)
SlotTarget(i) ==
    EffectiveDate(SortedStable[1])
        + TicksPerDay * ((i * SpanDays) \div (rel_call.number_of_releases - 1))

\* the absolute day-distance of a release to the target of slot i
SlotDistance(r, i) == Abs(Days(EffectiveDate(r) - SlotTarget(i)))

Spaced ==
    /\ rel_status = "returned"
    /\ rel_call.number_of_releases >= 2
    /\ Len(SortedStable) > rel_call.number_of_releases

\* C15: for every slot i in 1..targetCount-2 the i-th output element (the
\* first release being element 0) is the release, among all releases but
\* the first, with the smallest absolute day-distance to
\* firstDate + floor(i * interval) days, the earliest in list order winning
\* ties; the target is anchored to the first release.
C15_SlotRule ==
    Spaced =>
        \A i \in 1..(rel_call.number_of_releases - 2) :
            \E j \in 2..Len(SortedStable) :
                /\ rel_result[i + 1] = SortedStable[j]
                /\ \A k \in 2..Len(SortedStable) :
                      SlotDistance(SortedStable[j], i) <= SlotDistance(SortedStable[k], i)
                /\ \A k \in 2..(j - 1) :
                      SlotDistance(SortedStable[k], i) > SlotDistance(SortedStable[j], i)

\* five releases spaced down to four: the two inner slots take different
\* releases, slot 2 has two nearest releases and takes the earlier one, and
\* a span that is no multiple of 3 days
C15_Witness ==
    /\ Spaced
    /\ rel_call.number_of_releases = 4
    /\ Len(SortedStable) = 5
    /\ SpanDays % 3 # 0
    /\ rel_result[2] # rel_result[3]
    /\ \E j, k \in 2..5 :
          /\ j < k
          /\ rel_result[3] = SortedStable[j]
          /\ SlotDistance(SortedStable[j], 2) = SlotDistance(SortedStable[k], 2)
          /\ EffectiveDate(SortedStable[j]) # EffectiveDate(SortedStable[k])

(***************************************************************************)
(* The date of a matrix row.                                               *)
(***************************************************************************)
\* C16: every release of the list yields a row whose date is its published
\* date when it has one and its created date otherwise, the effective date
\* by which get_releases sorted and sampled it; a release whose published
\* date is null still yields a row, dated by its created date.
C16_RowDateIsEffectiveDate ==
    row_dates.status # "none" =>
        /\ row_dates.status \in {"built", "no release"}
        /\ Len(row_dates.dates) = Len(rel_result)
        /\ \A i \in 1..Len(rel_result) :
              row_dates.dates[i] = Days(EffectiveDate(rel_result[i]))

(***************************************************************************)
(* Further properties of the store.                                        *)
(***************************************************************************)
\* what del analytics[key] has to do in one step, for a key the store holds
\* (key in analytics) and for a key it does not hold
RemovedByKey(key) ==
    LET other(r) == r.name.s # key
        otherMatrix(m) == m.key # key
    IN  IF key \in existing_repositories
        THEN /\ repos_summary' = SelectSeq(repos_summary, other)
             /\ language_matrices' = SelectSeq(language_matrices, otherMatrix)
             /\ existing_repositories' = existing_repositories \ {key}
             /\ key \notin SummaryNames(repos_summary')
             /\ key \notin MatrixKeys(language_matrices')
             /\ last_op'.result = "returned"
        ELSE /\ UNCHANGED <<repos_summary, language_matrices, existing_repositories>>
             /\ last_op'.result = "returned"

\* C17: del analytics[k] in any reachable state: when k is present it is
\* afterwards in none of the summary table, the language matrices and the
\* existence index, and the entries of the other keys are unchanged; when k
\* is not present the three structures are unchanged and no error is
\* raised.  k is never removed from only some of the three.
C17_RemoveFrame ==
    [][last_op'.op = "delitem" => \E key \in Repos : RemovedByKey(key)]_vars

\* C18: in every reachable state, after any sequence of from_csv, collect
\* (completed or aborted) and del, a key is in the existence index exactly
\* when the summary table has a row for it.
C18_IndexIsSummaryKeys ==
    \A key \in Repos :
        (key \in existing_repositories) = (SummaryCount(repos_summary, key) > 0)

====
